---- MODULE Spec2Model ----
(***************************************************************************)
(* MicroHydra launcher (MicroHydra/launcher/launcher.py): the application  *)
(* catalog built by scan_apps, the main loop's key handling and animation  *)
(* tick, and the hand-off to the selected application through RTC memory   *)
(* and machine.reset().                                                    *)
(*                                                                         *)
(* Python strings are modelled as sequences of one-character strings, so   *)
(* that endswith, slicing, lower() and string comparison are computed.     *)
(***************************************************************************)
EXTENDS Integers, Sequences, FiniteSets, TLC

VARIABLES
    disk,                       \* the storage: flash /apps, the card, the /sd mount
    sd,                         \* the global SDCard handle: "None" or "SDCard"
    app_names,                  \* main_loop's ordered name list
    app_paths,                  \* main_loop's name -> path dict
    listed,                     \* main_app_list and sd_app_list of the last scan
    app_selector_index,
    prev_selector_index,
    scroll_factor,              \* in hundredths (1.0 is 100, the step 0.11 is 11)
    text_scroll_position,
    prev_text_scroll_position,
    icon_scroll_position,
    prev_icon_scroll_position,
    text_drawing,
    icon_drawing,
    force_redraw_display,
    ui_sound,                   \* config['ui_sound']
    config_saves,               \* number of config.save() calls so far
    display_off,                \* tft.fill(0); tft.sleep_mode(True); backlight off
    sd_deinit,                  \* "no", "done" or "failed": sd.deinit() of the hand-off
    rtc_memory,                 \* RTC.memory(): the hand-off record, <<>> when blank
    pc,                         \* where main_loop is
    error,                      \* the uncaught exception, "" when none
    new_keys,                   \* kb.get_new_keys() of the last tick
    dispatched,                 \* the index and name line 572 read in the last
                                \* pass, and len(app_names) then
    beeps,                      \* beep.play() calls of the last step, each with
                                \* config['ui_sound'] at the call
    label_drawn,                \* the name last drawn by scroll_text (bitmap_text)
    icon_drawn,                 \* the name last drawn by scroll_icon
    scroll_calls,               \* which of scroll_text ("text") and scroll_icon
                                \* ("icon") the last pass called
    nic,                        \* the global WLAN object: "None" or "WLAN"
    nic_active,                 \* nic.active()
    nic_connected,              \* what nic.isconnected() returned last
    sync_clock,                 \* config['sync_clock']
    wifi_ssid,                  \* config['wifi_ssid']
    rtc_year,                   \* rtc.datetime()[0]
    timezone_applied,           \* rtc.datetime(...) of line 153 was called
    connection_attempts,
    ntp_attempts,
    wifi_pc                     \* where the thread of wifi_sync_rtc is

vars == << disk, sd, app_names, app_paths, listed, app_selector_index, prev_selector_index,
           scroll_factor, text_scroll_position, prev_text_scroll_position,
           icon_scroll_position, prev_icon_scroll_position, text_drawing,
           icon_drawing, force_redraw_display, ui_sound, config_saves, display_off,
           sd_deinit, rtc_memory, pc, error, new_keys, dispatched, beeps,
           label_drawn, icon_drawn, scroll_calls, nic, nic_active,
           nic_connected, sync_clock, wifi_ssid, rtc_year, timezone_applied,
           connection_attempts, ntp_attempts, wifi_pc >>

wifi_vars == << nic, nic_active, nic_connected, sync_clock, wifi_ssid, rtc_year,
                timezone_applied, connection_attempts, ntp_attempts, wifi_pc >>

-----------------------------------------------------------------------------
(* Python str operations *)

Upper == << "A","B","C","D","E","F","G","H","I","J","K","L","M",
            "N","O","P","Q","R","S","T","U","V","W","X","Y","Z" >>
Lower == << "a","b","c","d","e","f","g","h","i","j","k","l","m",
            "n","o","p","q","r","s","t","u","v","w","x","y","z" >>
Digits == << "0","1","2","3","4","5","6","7","8","9" >>

IndexIn(c, table) == CHOOSE i \in 1..Len(table) : table[i] = c
IsIn(c, table) == \E i \in 1..Len(table) : table[i] = c

\* the characters the model's strings are made of
Chars == { Upper[i] : i \in 1..Len(Upper) } \cup { Lower[i] : i \in 1..Len(Lower) }
         \cup { Digits[i] : i \in 1..Len(Digits) } \cup { " ", ".", "/", "," }

\* ord(c): the code point
ord_table ==
    [c \in Chars |->
        IF IsIn(c, Upper) THEN 64 + IndexIn(c, Upper)
        ELSE IF IsIn(c, Lower) THEN 96 + IndexIn(c, Lower)
        ELSE IF IsIn(c, Digits) THEN 47 + IndexIn(c, Digits)
        ELSE IF c = " " THEN 32
        ELSE IF c = "," THEN 44
        ELSE IF c = "." THEN 46
        ELSE 47]
ord(c) == ord_table[c]

\* str.lower(), one character
lower_table ==
    [c \in Chars |-> IF IsIn(c, Upper) THEN Lower[IndexIn(c, Upper)] ELSE c]
lower_char(c) == lower_table[c]

\* str.lower()
lower(s) == [i \in 1..Len(s) |-> lower_char(s[i])]

\* str.endswith(suffix)
endswith(s, suffix) ==
    /\ Len(s) >= Len(suffix)
    /\ SubSeq(s, Len(s) - Len(suffix) + 1, Len(s)) = suffix

\* str.startswith(prefix)
startswith(s, prefix) ==
    /\ Len(s) >= Len(prefix)
    /\ SubSeq(s, 1, Len(prefix)) = prefix

\* s[:-k]
drop_last(s, k) == IF Len(s) <= k THEN << >> ELSE SubSeq(s, 1, Len(s) - k)

\* a < b on str: lexicographic by code point
RECURSIVE str_less(_, _)
str_less(a, b) ==
    IF b = << >> THEN FALSE
    ELSE IF a = << >> THEN TRUE
    ELSE IF ord(Head(a)) < ord(Head(b)) THEN TRUE
    ELSE IF ord(Head(a)) > ord(Head(b)) THEN FALSE
    ELSE str_less(Tail(a), Tail(b))

Last(list) == list[Len(list)]

\* x in list
in_list(x, list) == \E i \in 1..Len(list) : list[i] = x

\* list[i] with Python's indexing: 0-based, negative indices count from the end
py_index_ok(list, i) == -Len(list) <= i /\ i < Len(list)
py_index(list, i) == IF i >= 0 THEN list[i + 1] ELSE list[Len(list) + i + 1]

-----------------------------------------------------------------------------
(* scan_apps: string literals *)

SUFFIX_PY == << ".", "p", "y" >>
SUFFIX_MPY == << ".", "m", "p", "y" >>
APPS_PREFIX == << "/", "a", "p", "p", "s", "/" >>
SD_APPS_PREFIX == << "/", "s", "d", "/", "a", "p", "p", "s", "/" >>
RELOAD_APPS == << "R", "e", "l", "o", "a", "d", " ", "A", "p", "p", "s" >>
UI_SOUND == << "U", "I", " ", "S", "o", "u", "n", "d" >>
SETTINGS == << "S", "e", "t", "t", "i", "n", "g", "s" >>
SETTINGS_PATH == << "/", "l", "a", "u", "n", "c", "h", "e", "r", "/",
                    "s", "e", "t", "t", "i", "n", "g", "s", ".", "p", "y" >>

-----------------------------------------------------------------------------
(* The storage scan_apps reads.  File names a directory may hold: *)

ZEN_PY == << "Z", "e", "n", ".", "p", "y" >>
APPLE_PY == << "a", "p", "p", "l", "e", ".", "p", "y" >>
APPLE_MPY == << "a", "p", "p", "l", "e", ".", "m", "p", "y" >>
CAP_APPLE_PY == << "A", "p", "p", "l", "e", ".", "p", "y" >>
NOTE_TXT == << "n", "o", "t", "e", ".", "t", "x", "t" >>
SETTINGS_PY == << "S", "e", "t", "t", "i", "n", "g", "s", ".", "p", "y" >>
UI_SOUND_PY == << "U", "I", " ", "S", "o", "u", "n", "d", ".", "p", "y" >>
CHESS_PY == << "C", "h", "e", "s", "s", ".", "p", "y" >>
CLOCK_MPY == << "C", "l", "o", "c", "k", ".", "m", "p", "y" >>

FileNames == { ZEN_PY, APPLE_PY, APPLE_MPY, CAP_APPLE_PY, NOTE_TXT,
               SETTINGS_PY, UI_SOUND_PY, CHESS_PY, CLOCK_MPY }

\* bounds on the directory listings the scan specification draws
MaxFlashFiles == 2
MaxCardFiles == 1

\* os.listdir results: lists of distinct file names, in any order
RECURSIVE Listings(_)
Listings(n) ==
    IF n = 0 THEN { << >> }
    ELSE LET shorter == Listings(n - 1)
         IN  shorter \cup
             { Append(l, f) : l \in { x \in shorter : Len(x) = n - 1 },
                              f \in FileNames }

Distinct(l) == \A i, j \in 1..Len(l) : l[i] = l[j] => i = j
FlashListings == { l \in Listings(MaxFlashFiles) : Distinct(l) }
CardListings == { l \in Listings(MaxCardFiles) : Distinct(l) }

\* the storage operations of scan_apps that may raise OSError
FaultOps == { "mount", "listdir_sd", "mkdir_apps", "mkdir_sd_apps",
              "listdir_sd_apps", "umount" }

-----------------------------------------------------------------------------
(* scan_apps, lines 170-224: mount the card, make the apps directories and *)
(* list them.  The result is the storage afterwards, whether an exception  *)
(* left scan_apps, and the two listings.                                   *)

\* lines 176-198: "sd" not in main_directory; the branch of line 177 compares
\* the string "sd" with None and is never taken
mount_sd(sdh, d, faults) ==
    IF ~d.mounted /\ sdh # "None" /\ d.card_in /\ "mount" \notin faults
    THEN [d EXCEPT !.mounted = TRUE]
    ELSE d

\* lines 200-202: os.listdir("/sd") is not in a try block
listdir_sd_raises(d, faults) ==
    d.mounted /\ (~d.card_in \/ "listdir_sd" \in faults)

\* lines 205-207: os.mkdir("/apps") is not in a try block
mkdir_apps_raises(d, faults) == ~d.flash_apps_dir /\ "mkdir_apps" \in faults
mkdir_apps(d) == [d EXCEPT !.flash_apps_dir = TRUE]

\* lines 210-212: os.mkdir("/sd/apps") is not in a try block
mkdir_sd_apps_needed(d) == d.mounted /\ ~d.card_apps_dir
mkdir_sd_apps_raises(d, faults) ==
    mkdir_sd_apps_needed(d) /\ "mkdir_sd_apps" \in faults
mkdir_sd_apps(d) ==
    IF mkdir_sd_apps_needed(d) THEN [d EXCEPT !.card_apps_dir = TRUE] ELSE d

\* lines 218-224: os.listdir("/sd/apps") in a try block whose handler calls
\* os.umount('/sd'), which is not in a try block of its own
listdir_sd_apps_fails(d, faults) == d.mounted /\ "listdir_sd_apps" \in faults
umount_raises(d, faults) ==
    listdir_sd_apps_fails(d, faults) /\ "umount" \in faults

mount_and_list(sdh, d0, faults) ==
    LET d1 == mount_sd(sdh, d0, faults)
        d2 == mkdir_apps(d1)
        d3 == mkdir_sd_apps(d2)
        raised(d) == [raised |-> TRUE, disk |-> d,
                      main_app_list |-> << >>, sd_app_list |-> << >>]
    IN  IF listdir_sd_raises(d1, faults) THEN raised(d1)
        ELSE IF mkdir_apps_raises(d1, faults) THEN raised(d1)
        ELSE IF mkdir_sd_apps_raises(d2, faults) THEN raised(d2)
        ELSE IF umount_raises(d3, faults) THEN raised(d3)
        ELSE IF listdir_sd_apps_fails(d3, faults)
             THEN [raised |-> FALSE, disk |-> [d3 EXCEPT !.mounted = FALSE],
                   main_app_list |-> d3.flash_apps, sd_app_list |-> << >>]
        ELSE [raised |-> FALSE, disk |-> d3,
              main_app_list |-> d3.flash_apps,
              sd_app_list |-> IF d3.mounted THEN d3.card_apps ELSE << >>]

-----------------------------------------------------------------------------
(* scan_apps, lines 226-275: collect, sort, append the menu entries *)

\* lines 236-239 (and 243-245, 252-255, 259-261): the name is appended when
\* new, the path is written either way
add_name(acc, this_name, path) ==
    [app_names |-> IF in_list(this_name, acc.app_names)
                   THEN acc.app_names
                   ELSE Append(acc.app_names, this_name),
     app_paths |-> [n \in DOMAIN acc.app_paths \cup {this_name} |->
                        IF n = this_name THEN path ELSE acc.app_paths[n]]]

\* one directory entry taken as an application whatever its suffix
add_entry_any_suffix(acc, entry, prefix) ==
    IF endswith(entry, SUFFIX_PY)
    THEN add_name(acc, drop_last(entry, 3), prefix \o entry)
    ELSE add_name(acc, drop_last(entry, 4), prefix \o entry)

\* lines 231-245 (and 249-261): one directory entry
add_entry(acc, entry, prefix) ==
    IF endswith(entry, SUFFIX_PY)
    THEN add_name(acc, drop_last(entry, 3), prefix \o entry)
    ELSE IF endswith(entry, SUFFIX_MPY)
    THEN add_name(acc, drop_last(entry, 4), prefix \o entry)
    ELSE acc

\* lines 230 and 248: for entry in ...
RECURSIVE add_entries(_, _, _)
add_entries(acc, list, prefix) ==
    IF list = << >> THEN acc
    ELSE add_entries(add_entry(acc, Head(list), prefix), Tail(list), prefix)

\* line 264: the sort key
sort_key(element) == lower(element)

\* an unstable insertion: the element goes before the elements of equal key
RECURSIVE insert_sorted_before_equal(_, _)
insert_sorted_before_equal(sorted, x) ==
    IF sorted = << >> THEN << x >>
    ELSE IF ~str_less(sort_key(Last(sorted)), sort_key(x))
         THEN Append(insert_sorted_before_equal(
                         SubSeq(sorted, 1, Len(sorted) - 1), x), Last(sorted))
         ELSE Append(sorted, x)

\* list.sort(key=...) is stable: an element goes after every element whose key
\* is not greater than its own
RECURSIVE insert_sorted(_, _)
insert_sorted(sorted, x) ==
    IF sorted = << >> THEN << x >>
    ELSE IF str_less(sort_key(x), sort_key(Last(sorted)))
         THEN Append(insert_sorted(SubSeq(sorted, 1, Len(sorted) - 1), x),
                     Last(sorted))
         ELSE Append(sorted, x)

RECURSIVE list_sort(_)
list_sort(list) ==
    IF list = << >> THEN << >>
    ELSE insert_sorted(list_sort(SubSeq(list, 1, Len(list) - 1)), Last(list))

\* lines 266-271 without line 272
append_menu_entries_without_path(acc) ==
    [app_names |-> acc.app_names \o << RELOAD_APPS, UI_SOUND, SETTINGS >>,
     app_paths |-> acc.app_paths]

\* lines 266-272
append_menu_entries(acc) ==
    [app_names |-> acc.app_names \o << RELOAD_APPS, UI_SOUND, SETTINGS >>,
     app_paths |-> [n \in DOMAIN acc.app_paths \cup {SETTINGS} |->
                        IF n = SETTINGS THEN SETTINGS_PATH ELSE acc.app_paths[n]]]

\* the menu entries appended before the sort of line 264
collect_apps_sorting_last(main_app_list, sd_app_list) ==
    LET empty == [app_names |-> << >>, app_paths |-> << >>]
        flash == add_entries(empty, main_app_list, APPS_PREFIX)
        both == add_entries(flash, sd_app_list, SD_APPS_PREFIX)
        all == append_menu_entries(both)
    IN  [all EXCEPT !.app_names = list_sort(all.app_names)]

\* lines 226-275
collect_apps(main_app_list, sd_app_list) ==
    LET empty == [app_names |-> << >>, app_paths |-> << >>]
        flash == add_entries(empty, main_app_list, APPS_PREFIX)
        both == add_entries(flash, sd_app_list, SD_APPS_PREFIX)
        sorted == [both EXCEPT !.app_names = list_sort(both.app_names)]
    IN  append_menu_entries(sorted)

\* scan_apps: the catalog and the storage afterwards, or the exception
scan_result(m) ==
    IF m.raised
    THEN [raised |-> TRUE, disk |-> m.disk, listed |-> << << >>, << >> >>,
          app_names |-> << >>, app_paths |-> << >>]
    ELSE LET c == collect_apps(m.main_app_list, m.sd_app_list)
         IN  [raised |-> FALSE, disk |-> m.disk,
              listed |-> << m.main_app_list, m.sd_app_list >>,
              app_names |-> c.app_names, app_paths |-> c.app_paths]

\* every outcome scan_apps(sd) can have on storage d
scan_apps(sdh, d) ==
    { scan_result(m) : m \in { mount_and_list(sdh, d, f) : f \in SUBSET FaultOps } }

-----------------------------------------------------------------------------
(* Animation: the easing functions and the two scroll routines.  A scroll  *)
(* factor is kept in hundredths; int(ease(x) * 240) is computed exactly.   *)

abs(x) == IF x < 0 THEN -x ELSE x
min(a, b) == IF a < b THEN a ELSE b

\* int(ease_in_out_quart(s / 100) * 240) for 0 <= s <= 100
\* 8 x^4 * 240 = 3 s^4 / 156250; (1 - (2 - 2x)^4 / 2) * 240 = 240 - 3 (100 - s)^4 / 156250
ease_in_out_quart_px(s) ==
    IF s < 50
    THEN (3 * s * s * s * s) \div 156250
    ELSE (240 * 156250 - 3 * (100 - s) * (100 - s) * (100 - s) * (100 - s)) \div 156250

\* int(ease_in_out_cubic(s / 100) * 240) for 0 <= s <= 100
\* 4 x^3 * 240 = 3 s^3 / 3125; (1 - (2 - 2x)^3 / 2) * 240 = 240 - 3 (100 - s)^3 / 3125
ease_in_out_cubic_px(s) ==
    IF s < 50
    THEN (3 * s * s * s) \div 3125
    ELSE (240 * 3125 - 3 * (100 - s) * (100 - s) * (100 - s)) \div 3125

\* lines 364-370
text_position(sf) ==
    IF sf < 0 THEN -ease_in_out_quart_px(abs(sf)) ELSE ease_in_out_quart_px(sf)

\* lines 402-408
icon_position(sf) ==
    IF sf < 0 THEN -ease_in_out_cubic_px(abs(sf)) ELSE ease_in_out_cubic_px(sf)

\* the decay without the min() of lines 660 and 662
decay_fixed_step(sf, force) ==
    IF sf # 0 \/ force
    THEN IF sf > 0 THEN sf - 11 ELSE sf + 11
    ELSE sf

\* lines 657-662
decay(sf, force) ==
    IF sf # 0 \/ force
    THEN IF sf > 0 THEN sf - min(11, abs(sf)) ELSE sf + min(11, abs(sf))
    ELSE sf

\* The same decay on the device's single-precision floats.  A value is kept
\* as a multiple of 2^-27, the spacing of the floats next to 0.11; every value
\* of the decay from 1.0 is such a multiple.
F32_ONE == 134217728            \* 1.0
F32_STEP == 14763950            \* the float nearest to 0.11, 0x3DE147AE

\* the spacing of the floats around a magnitude m
f32_ulp(m) ==
    IF m >= 67108864 THEN 8         \* [0.5, 1): 2^-24
    ELSE IF m >= 33554432 THEN 4    \* [0.25, 0.5): 2^-25
    ELSE IF m >= 16777216 THEN 2    \* [0.125, 0.25): 2^-26
    ELSE 1

\* round to nearest, ties to even
f32_round(m) ==
    LET g == f32_ulp(m)
        q == m \div g
        rest == m % g
    IN  IF 2 * rest > g \/ (2 * rest = g /\ q % 2 = 1) THEN (q + 1) * g ELSE q * g

\* lines 659-662 on floats: the magnitude after one step, the sign is kept
f32_decay(m) == f32_round(m - min(F32_STEP, m))

\* the magnitudes of n steps of the decay that starts at m
RECURSIVE f32_chain(_, _)
f32_chain(m, n) ==
    IF n = 0 THEN << >> ELSE << f32_decay(m) >> \o f32_chain(f32_decay(m), n - 1)

\* the scroll factor of the model, in hundredths, for a float magnitude
f32_hundredths(m) == (m + 671088) \div 1342177

-----------------------------------------------------------------------------
(* main_loop: the keys and the locals of one pass of the while loop *)

K_RIGHT == << "/" >>
K_LEFT == << "," >>
K_GO == << "G", "O" >>
K_ENT == << "E", "N", "T" >>
K_TAB == << "T", "A", "B" >>
K_S == << "s" >>
K_U == << "u" >>
K_X == << "x" >>

\* the results of kb.get_new_keys() the model draws
KeyPresses ==
    { << >>, << K_RIGHT >>, << K_LEFT >>, << K_GO >>, << K_TAB >>,
      << K_S >>, << K_U >>, << K_X >>, << K_U, K_S >>,
      << K_RIGHT, K_GO >>, << K_LEFT, K_ENT >>, << K_RIGHT, K_U >> }

\* the hand-off with the card released before the display is blanked
handoff_order_deinit_first ==
    << "config_save", "sd_deinit", "display_off", "chime", "rtc_memory", "reset" >>

\* the hand-off without the config.save() of line 592
handoff_order_without_save ==
    << "display_off", "sd_deinit", "chime", "rtc_memory", "reset" >>

\* the order of the statements of the launch branch, lines 589-608, and of
\* launch_app, lines 284-292
handoff_order ==
    << "config_save", "display_off", "sd_deinit", "chime", "rtc_memory", "reset" >>

next_step(p) ==
    LET i == CHOOSE k \in 1..Len(handoff_order) : handoff_order[k] = p
    IN  IF i = Len(handoff_order) THEN "halted" ELSE handoff_order[i + 1]

\* the variables main_loop's pass reads and writes, as one record
locals ==
    [ disk |-> disk, app_names |-> app_names, app_paths |-> app_paths,
      listed |-> listed,
      app_selector_index |-> app_selector_index,
      prev_selector_index |-> prev_selector_index,
      scroll_factor |-> scroll_factor,
      text_scroll_position |-> text_scroll_position,
      prev_text_scroll_position |-> prev_text_scroll_position,
      icon_scroll_position |-> icon_scroll_position,
      prev_icon_scroll_position |-> prev_icon_scroll_position,
      text_drawing |-> text_drawing, icon_drawing |-> icon_drawing,
      force_redraw_display |-> force_redraw_display,
      ui_sound |-> ui_sound, pc |-> "loop", error |-> "",
      dispatched |-> {}, beeps |-> {},
      label_drawn |-> label_drawn, icon_drawn |-> icon_drawn,
      scroll_calls |-> {} ]

\* beep.play(...), guarded by config['ui_sound'] where the code guards it
play(L, tune) == [L EXCEPT !.beeps = @ \cup { << tune, L.ui_sound >> }]
\* lines 548, 564, 587, 641 without the test of config['ui_sound']
play_unguarded(L, tune) == play(L, tune)

\* lines 547-548, 563-564, 586-587, 640-641
play_if_sound(L, tune) == IF L.ui_sound THEN play(L, tune) ELSE L

raise(L, exception) == [L EXCEPT !.pc = "loop_raised", !.error = exception]

\* lines 539-545, 555-561, 621-627, 630-636: dir is 1 or -1
start_scroll(L, dir) ==
    [L EXCEPT !.scroll_factor = dir * 100,
              !.text_drawing = TRUE, !.icon_drawing = TRUE,
              !.prev_text_scroll_position = dir * 240,
              !.text_scroll_position = dir * 240,
              !.prev_icon_scroll_position = dir * 240,
              !.icon_scroll_position = dir * 240]

\* lines 535-564
arrow_keys(L, keys) ==
    IF in_list(K_RIGHT, keys)
    THEN play_if_sound(
             start_scroll([L EXCEPT !.app_selector_index = @ + 1], 1), "right")
    ELSE IF in_list(K_LEFT, keys)
    THEN play_if_sound(
             start_scroll([L EXCEPT !.app_selector_index = @ - 1], -1), "left")
    ELSE L

\* line 569
confirm_pressed(keys) == in_list(K_GO, keys) \/ in_list(K_ENT, keys)

\* lines 574-577 alone: the flag is set and never cleared
toggle_ui_sound_unmute_only(L) ==
    play([L EXCEPT !.ui_sound = TRUE, !.force_redraw_display = TRUE], "unmute")

\* lines 574-580
toggle_ui_sound(L) ==
    IF ~L.ui_sound
    THEN play([L EXCEPT !.ui_sound = TRUE, !.force_redraw_display = TRUE], "unmute")
    ELSE [L EXCEPT !.ui_sound = FALSE, !.force_redraw_display = TRUE]

\* lines 583-587: r is the outcome of scan_apps(sd)
reload_apps(L, r) ==
    IF r.raised
    THEN raise([L EXCEPT !.disk = r.disk], "OSError")
    ELSE play_if_sound(
             [L EXCEPT !.disk = r.disk, !.listed = r.listed,
                       !.app_names = r.app_names, !.app_paths = r.app_paths,
                       !.app_selector_index = 0], "reload")

\* activate without the branch of lines 572-580
activate_without_ui_sound_branch(L, r) ==
    IF ~py_index_ok(L.app_names, L.app_selector_index)
    THEN raise(L, "IndexError")
    ELSE LET name == py_index(L.app_names, L.app_selector_index)
             D == [L EXCEPT !.dispatched =
                       { [index |-> L.app_selector_index, name |-> name,
                          len |-> Len(L.app_names)] }]
         IN  IF name = RELOAD_APPS THEN reload_apps(D, r)
             ELSE [D EXCEPT !.pc = handoff_order[1]]

\* lines 572-608: app_names[app_selector_index] is read before the index is
\* wrapped; the launch branch continues in the hand-off steps
activate(L, r) ==
    IF ~py_index_ok(L.app_names, L.app_selector_index)
    THEN raise(L, "IndexError")
    ELSE LET name == py_index(L.app_names, L.app_selector_index)
             D == [L EXCEPT !.dispatched =
                       { [index |-> L.app_selector_index, name |-> name,
                          len |-> Len(L.app_names)] }]
         IN  IF name = UI_SOUND THEN toggle_ui_sound(D)
             ELSE IF name = RELOAD_APPS THEN reload_apps(D, r)
             ELSE [D EXCEPT !.pc = handoff_order[1]]

\* line 572, 582: whether the pass calls scan_apps
reload_selected(L, keys) ==
    /\ confirm_pressed(keys)
    /\ py_index_ok(L.app_names, L.app_selector_index)
    /\ py_index(L.app_names, L.app_selector_index) = RELOAD_APPS

\* lines 613-614
is_shortcut_key(key) ==
    Len(key) = 1 /\ (IsIn(key[1], Lower) \/ IsIn(key[1], Digits))

\* the search of lines 616-643 without the break of line 643: the last hit wins
jump_to_last_hit(L, key) ==
    LET hits == { i \in 1..Len(L.app_names) :
                    startswith(lower(L.app_names[i]), key) }
    IN  IF ~is_shortcut_key(key) \/ hits = {} THEN L
        ELSE LET idx == (CHOOSE i \in hits : \A j \in hits : i >= j) - 1
                 scrolled == IF L.app_selector_index > idx THEN start_scroll(L, -1)
                             ELSE IF L.app_selector_index < idx THEN start_scroll(L, 1)
                             ELSE L
             IN  play_if_sound([scrolled EXCEPT !.app_selector_index = idx], "jump")

\* the jump with the direction of the shorter way round the list
jump_to_shorter_way(L, key) ==
    LET hits == { i \in 1..Len(L.app_names) :
                    startswith(lower(L.app_names[i]), key) }
    IN  IF ~is_shortcut_key(key) \/ hits = {} THEN L
        ELSE LET idx == (CHOOSE i \in hits : \A j \in hits : i <= j) - 1
                 ahead == (idx - L.app_selector_index) % Len(L.app_names)
                 scrolled == IF ahead = 0 THEN L
                             ELSE IF 2 * ahead <= Len(L.app_names)
                             THEN start_scroll(L, 1)
                             ELSE start_scroll(L, -1)
             IN  play_if_sound([scrolled EXCEPT !.app_selector_index = idx], "jump")

\* lines 616-643: the first name that starts with the key
jump_to(L, key) ==
    LET hits == { i \in 1..Len(L.app_names) :
                    startswith(lower(L.app_names[i]), key) }
    IN  IF ~is_shortcut_key(key) \/ hits = {} THEN L
        ELSE LET idx == (CHOOSE i \in hits : \A j \in hits : i <= j) - 1
                 scrolled == IF L.app_selector_index > idx THEN start_scroll(L, -1)
                             ELSE IF L.app_selector_index < idx THEN start_scroll(L, 1)
                             ELSE L
             IN  play_if_sound([scrolled EXCEPT !.app_selector_index = idx], "jump")

\* lines 610-611: for key in new_keys
RECURSIVE shortcuts(_, _)
shortcuts(L, keys) ==
    IF keys = << >> THEN L ELSE shortcuts(jump_to(L, Head(keys)), Tail(keys))

\* the pass without line 647
wrap_index_missing(L) == L

\* lines 646-647
wrap_index(L) ==
    [L EXCEPT !.app_selector_index = @ % Len(L.app_names)]

\* scroll_text, lines 360-395
scroll_text(L) ==
    LET pos == text_position(L.scroll_factor)
        M == [L EXCEPT !.text_scroll_position = pos]
    IN  IF abs(pos) < 120
        THEN IF pos # 0 /\ ~py_index_ok(M.app_names, M.prev_selector_index)
             THEN raise(M, "IndexError")                          \* line 379
             ELSE IF ~py_index_ok(M.app_names, M.app_selector_index)
             THEN raise(M, "IndexError")                          \* line 389
             ELSE [M EXCEPT !.label_drawn =
                       py_index(M.app_names, M.app_selector_index)]
        ELSE M

\* scroll_icon, lines 398-434
scroll_icon(L) ==
    LET pos == icon_position(L.scroll_factor)
        M == [L EXCEPT !.icon_scroll_position = pos]
    IN  IF (30 < abs(pos) /\ abs(pos) < 130) \/ pos = 0
        THEN IF ~py_index_ok(M.app_names, M.app_selector_index)
             THEN raise(M, "IndexError")                          \* line 416
             ELSE LET current_app_text ==
                          py_index(M.app_names, M.app_selector_index)
                  IN  IF /\ current_app_text \notin { UI_SOUND, RELOAD_APPS, SETTINGS }
                         /\ current_app_text \notin DOMAIN M.app_paths
                      THEN raise(M, "KeyError")                   \* line 430
                      ELSE [M EXCEPT !.icon_drawn = current_app_text]
        ELSE M

\* lines 664-665 without the test of lines 666-667: the track never goes idle
text_step_never_idle(L) ==
    IF L.text_drawing \/ L.force_redraw_display
    THEN scroll_text([L EXCEPT !.scroll_calls = @ \cup { "text" }])
    ELSE L

\* lines 664-667
text_step(L) ==
    IF L.text_drawing \/ L.force_redraw_display
    THEN LET M == scroll_text([L EXCEPT !.scroll_calls = @ \cup { "text" }])
         IN  IF M.pc = "loop" /\ M.text_scroll_position = 0
             THEN [M EXCEPT !.text_drawing = FALSE]
             ELSE M
    ELSE L

\* lines 669-672
icon_step(L) ==
    IF L.icon_drawing \/ L.force_redraw_display
    THEN LET M == scroll_icon([L EXCEPT !.scroll_calls = @ \cup { "icon" }])
         IN  IF M.pc = "loop" /\ M.icon_scroll_position = 0
             THEN [M EXCEPT !.icon_drawing = FALSE]
             ELSE M
    ELSE L

\* lines 683-687
end_of_pass(L) ==
    [L EXCEPT !.force_redraw_display = FALSE,
              !.prev_selector_index = L.app_selector_index,
              !.prev_text_scroll_position = L.text_scroll_position,
              !.prev_icon_scroll_position = L.icon_scroll_position]

\* lines 657-687
graphics(L) ==
    LET A == [L EXCEPT !.scroll_factor = decay(@, L.force_redraw_display)]
        B == text_step(A)
        C == IF B.pc = "loop" THEN icon_step(B) ELSE B
    IN  IF C.pc = "loop" THEN end_of_pass(C) ELSE C

\* lines 531-687: one pass of the while loop; r is the outcome of the
\* scan_apps call, if the pass makes one
pass(keys, r) ==
    LET A == arrow_keys(locals, keys)
        B == IF confirm_pressed(keys) THEN activate(A, r) ELSE shortcuts(A, keys)
    IN  IF B.pc = "loop" THEN graphics(wrap_index(B)) ELSE B

-----------------------------------------------------------------------------
(* Initial states *)

\* the flash and card contents the launcher specification boots on
FlashImages ==
    { [dir |-> TRUE, apps |-> << ZEN_PY, UI_SOUND_PY >>],
      [dir |-> TRUE, apps |-> << APPLE_PY >>] }
CardImages ==
    { [dir |-> TRUE, apps |-> << APPLE_MPY, SETTINGS_PY, CHESS_PY >>],
      [dir |-> FALSE, apps |-> << >>] }
NoCard == [dir |-> FALSE, apps |-> << >>]

make_disk(flash, in, card, mounted) ==
    [ flash_apps_dir |-> flash.dir, flash_apps |-> flash.apps,
      card_in |-> in, card_apps_dir |-> card.dir, card_apps |-> card.apps,
      mounted |-> mounted ]

\* lines 50-55 and 89: the module's globals; main_loop has not started
InitRest ==
    /\ app_names = << >>
    /\ app_paths = << >>
    /\ listed = << << >>, << >> >>
    /\ app_selector_index = 0
    /\ prev_selector_index = 0
    /\ scroll_factor = 0
    /\ text_scroll_position = 0
    /\ prev_text_scroll_position = 0
    /\ icon_scroll_position = 0
    /\ prev_icon_scroll_position = 0
    /\ text_drawing = TRUE
    /\ icon_drawing = TRUE
    /\ force_redraw_display = TRUE
    /\ config_saves = 0
    /\ display_off = FALSE
    /\ sd_deinit = "no"
    /\ rtc_memory = << >>
    /\ pc = "boot"
    /\ error = ""
    /\ new_keys = << >>
    /\ dispatched = {}
    /\ beeps = {}
    /\ label_drawn = << >>
    /\ icon_drawn = << >>
    /\ scroll_calls = {}

\* the thread of wifi_sync_rtc (line 164) shares no variable with main_loop;
\* the launcher specifications leave it where it starts, with no WLAN object
wifi_not_started ==
    /\ nic = "None"
    /\ nic_active = FALSE
    /\ nic_connected = FALSE
    /\ sync_clock = FALSE
    /\ wifi_ssid = ""
    /\ rtc_year = 2000
    /\ timezone_applied = FALSE
    /\ connection_attempts = 0
    /\ ntp_attempts = 0
    /\ wifi_pc = "start"

Init ==
    /\ wifi_not_started
    /\ sd \in { "None", "SDCard" }
    /\ ui_sound \in BOOLEAN
    /\ \E flash \in FlashImages :
          \/ disk = make_disk(flash, FALSE, NoCard, FALSE)
          \/ \E card \in CardImages : disk = make_disk(flash, TRUE, card, FALSE)
    /\ InitRest

\* every storage a call of scan_apps can meet, at boot or at a rescan (the
\* card then may be mounted already, or mounted and pulled out)
ScanInit ==
    /\ wifi_not_started
    /\ sd \in { "None", "SDCard" }
    /\ ui_sound = TRUE
    /\ \E fdir \in BOOLEAN, cin \in BOOLEAN, cdir \in BOOLEAN, mnt \in BOOLEAN :
       \E fl \in FlashListings, cl \in CardListings :
          /\ ~fdir => fl = << >>
          /\ ~cin => ~cdir
          /\ ~cdir => cl = << >>
          /\ mnt => sd # "None"
          /\ disk = make_disk([dir |-> fdir, apps |-> fl], cin,
                              [dir |-> cdir, apps |-> cl], mnt)
    /\ InitRest

-----------------------------------------------------------------------------
(* Actions *)

handoff_vars == << config_saves, display_off, sd_deinit, rtc_memory >>
loop_vars == << app_selector_index, prev_selector_index, scroll_factor,
                text_scroll_position, prev_text_scroll_position,
                icon_scroll_position, prev_icon_scroll_position, text_drawing,
                icon_drawing, force_redraw_display, label_drawn, icon_drawn,
                scroll_calls >>
catalog_vars == << app_names, app_paths, listed >>

\* main_loop, lines 486-516: the first scan, the locals, the startup sound
Boot ==
    /\ pc = "boot"
    /\ \E r \in scan_apps(sd, disk) :
          /\ disk' = r.disk
          /\ IF r.raised
             THEN /\ pc' = "boot_raised"
                  /\ error' = "OSError"
                  /\ beeps' = {}
                  /\ UNCHANGED << catalog_vars, loop_vars >>
             ELSE /\ pc' = "loop"
                  /\ error' = ""
                  /\ app_names' = r.app_names
                  /\ app_paths' = r.app_paths
                  /\ listed' = r.listed
                  /\ app_selector_index' = 0
                  /\ prev_selector_index' = 0
                  /\ scroll_factor' = 0
                  /\ text_scroll_position' = 0
                  /\ prev_text_scroll_position' = 0
                  /\ icon_scroll_position' = 0
                  /\ prev_icon_scroll_position' = 0
                  /\ text_drawing' = TRUE
                  /\ icon_drawing' = TRUE
                  /\ force_redraw_display' = TRUE
                  /\ beeps' = IF ui_sound THEN { << "startup", ui_sound >> } ELSE {}
                  /\ UNCHANGED << label_drawn, icon_drawn, scroll_calls >>
    /\ UNCHANGED << wifi_vars, sd, ui_sound, handoff_vars, new_keys, dispatched >>

no_scan ==
    [raised |-> FALSE, disk |-> disk, listed |-> listed,
     app_names |-> app_names, app_paths |-> app_paths]

\* main_loop, lines 529-687: one pass of the while loop
Tick ==
    /\ pc = "loop"
    /\ \E keys \in KeyPresses :
       \E r \in IF reload_selected(arrow_keys(locals, keys), keys)
                THEN scan_apps(sd, disk) ELSE { no_scan } :
       \E L \in { pass(keys, r) } :
              /\ new_keys' = keys
              /\ disk' = L.disk
              /\ app_names' = L.app_names
              /\ app_paths' = L.app_paths
              /\ listed' = L.listed
              /\ app_selector_index' = L.app_selector_index
              /\ prev_selector_index' = L.prev_selector_index
              /\ scroll_factor' = L.scroll_factor
              /\ text_scroll_position' = L.text_scroll_position
              /\ prev_text_scroll_position' = L.prev_text_scroll_position
              /\ icon_scroll_position' = L.icon_scroll_position
              /\ prev_icon_scroll_position' = L.prev_icon_scroll_position
              /\ text_drawing' = L.text_drawing
              /\ icon_drawing' = L.icon_drawing
              /\ force_redraw_display' = L.force_redraw_display
              /\ ui_sound' = L.ui_sound
              /\ pc' = L.pc
              /\ error' = L.error
              /\ dispatched' = L.dispatched
              /\ beeps' = L.beeps
              /\ label_drawn' = L.label_drawn
              /\ icon_drawn' = L.icon_drawn
              /\ scroll_calls' = L.scroll_calls
    /\ UNCHANGED << wifi_vars, sd, handoff_vars >>

\* line 592: config.save()
ConfigSave ==
    /\ pc = "config_save"
    /\ config_saves' = config_saves + 1
    /\ pc' = next_step(pc)
    /\ beeps' = {}
    /\ UNCHANGED << wifi_vars, disk, sd, catalog_vars, loop_vars, ui_sound, display_off,
                    sd_deinit, rtc_memory, error, new_keys, dispatched >>

\* lines 595-597: the display is blanked, put to sleep, its backlight cut
DisplayOff ==
    /\ pc = "display_off"
    /\ display_off' = TRUE
    /\ pc' = next_step(pc)
    /\ beeps' = {}
    /\ UNCHANGED << wifi_vars, disk, sd, catalog_vars, loop_vars, ui_sound, config_saves,
                    sd_deinit, rtc_memory, error, new_keys, dispatched >>

\* lines 599-603: sd.deinit() when a handle is held; its failure is caught
SdDeinit ==
    /\ pc = "sd_deinit"
    /\ IF sd # "None"
       THEN \E outcome \in { "done", "failed" } : sd_deinit' = outcome
       ELSE sd_deinit' = sd_deinit
    /\ pc' = next_step(pc)
    /\ beeps' = {}
    /\ UNCHANGED << wifi_vars, disk, sd, catalog_vars, loop_vars, ui_sound, config_saves,
                    display_off, rtc_memory, error, new_keys, dispatched >>

\* lines 605-606
LaunchChime ==
    /\ pc = "chime"
    /\ beeps' = IF ui_sound THEN { << "launch", ui_sound >> } ELSE {}
    /\ pc' = next_step(pc)
    /\ UNCHANGED << wifi_vars, disk, sd, catalog_vars, loop_vars, ui_sound, handoff_vars,
                    error, new_keys, dispatched >>

\* line 608 and launch_app, lines 286-287: rtc.memory(app_path)
RtcMemory ==
    /\ pc = "rtc_memory"
    /\ LET name == py_index(app_names, app_selector_index)
       IN  IF name \in DOMAIN app_paths
           THEN /\ rtc_memory' = app_paths[name]
                /\ pc' = next_step(pc)
                /\ error' = error
           ELSE /\ rtc_memory' = rtc_memory
                /\ pc' = "loop_raised"
                /\ error' = "KeyError"
    /\ beeps' = {}
    /\ UNCHANGED << wifi_vars, disk, sd, catalog_vars, loop_vars, ui_sound, config_saves,
                    display_off, sd_deinit, new_keys, dispatched >>

\* launch_app, lines 290-292: machine.reset()
MachineReset ==
    /\ pc = "reset"
    /\ pc' = next_step(pc)
    /\ beeps' = {}
    /\ UNCHANGED << wifi_vars, disk, sd, catalog_vars, loop_vars, ui_sound, handoff_vars,
                    error, new_keys, dispatched >>

\* the user pulls the card out while the launcher runs
CardEject ==
    /\ pc = "loop"
    /\ disk.card_in
    /\ disk' = [disk EXCEPT !.card_in = FALSE, !.card_apps_dir = FALSE,
                            !.card_apps = << >>]
    /\ UNCHANGED << wifi_vars, sd, catalog_vars, loop_vars, ui_sound, handoff_vars, pc,
                    error, new_keys, dispatched, beeps >>

\* the user puts a card in while the launcher runs
CardInsert ==
    /\ pc = "loop"
    /\ ~disk.card_in
    /\ \E card \in CardImages :
          disk' = [disk EXCEPT !.card_in = TRUE, !.card_apps_dir = card.dir,
                               !.card_apps = card.apps]
    /\ UNCHANGED << wifi_vars, sd, catalog_vars, loop_vars, ui_sound, handoff_vars, pc,
                    error, new_keys, dispatched, beeps >>

Next ==
    \/ Boot
    \/ Tick
    \/ ConfigSave
    \/ DisplayOff
    \/ SdDeinit
    \/ LaunchChime
    \/ RtcMemory
    \/ MachineReset
    \/ CardEject
    \/ CardInsert

Spec == Init /\ [][Next]_vars

\* scan_apps applied once to every storage of ScanInit
ScanNext == Boot

ScanSpec == ScanInit /\ [][ScanNext]_vars

-----------------------------------------------------------------------------
(* wifi_sync_rtc, lines 98-164: the thread that sets the clock from the      *)
(* network.  Each action is one statement or one turn of a loop; what the    *)
(* network does (connected or not, a call raising or not, the clock set or   *)
(* not) is chosen freely at each call.                                       *)

MAX_WIFI_ATTEMPTS == 100        \* line 106
MAX_NTP_ATTEMPTS == 10          \* line 107

launcher_vars ==
    << disk, sd, app_names, app_paths, listed, app_selector_index,
       prev_selector_index, scroll_factor, text_scroll_position,
       prev_text_scroll_position, icon_scroll_position,
       prev_icon_scroll_position, text_drawing, icon_drawing,
       force_redraw_display, ui_sound, config_saves, display_off, sd_deinit,
       rtc_memory, pc, error, new_keys, dispatched, beeps, label_drawn,
       icon_drawn, scroll_calls >>

wifi_config == << nic, sync_clock, wifi_ssid >>

\* lines 100 and 102
sync_wanted == sync_clock /\ nic # "None" /\ wifi_ssid # "" /\ rtc_year = 2000

\* the connection loop without the break of lines 124-125
connect_loop_never_breaks(attempts) == FALSE

\* lines 124-125
connect_loop_breaks(attempts) == attempts >= MAX_WIFI_ATTEMPTS

\* line 131
ntp_loop_goes_on(year, attempts) == year = 2000 /\ attempts < MAX_NTP_ATTEMPTS

\* lines 100-102
WifiStart ==
    /\ wifi_pc = "start"
    /\ wifi_pc' = IF sync_wanted THEN "activate" ELSE "done"
    /\ UNCHANGED << launcher_vars, wifi_config, nic_active, nic_connected,
                    rtc_year, timezone_applied, connection_attempts, ntp_attempts >>

\* lines 109-115: nic.active(True) when the interface is off
WifiActivate ==
    /\ wifi_pc = "activate"
    /\ \E outcome \in IF nic_active THEN { "skipped" } ELSE { "ok", "RuntimeError" } :
          /\ nic_active' = (nic_active \/ outcome = "ok")
          /\ wifi_pc' = IF outcome = "RuntimeError" THEN "handler" ELSE "connect_test"
    /\ connection_attempts' = 0
    /\ UNCHANGED << launcher_vars, wifi_config, nic_connected, rtc_year,
                    timezone_applied, ntp_attempts >>

\* line 116: while not nic.isconnected()
WifiConnectTest ==
    /\ wifi_pc = "connect_test"
    /\ \E connected \in BOOLEAN :
          /\ nic_connected' = connected
          /\ wifi_pc' = IF connected THEN "connected_test" ELSE "connect"
    /\ UNCHANGED << launcher_vars, wifi_config, nic_active, rtc_year,
                    timezone_applied, connection_attempts, ntp_attempts >>

\* lines 117-126: one nic.connect(), its OSError caught
WifiConnect ==
    /\ wifi_pc = "connect"
    /\ connection_attempts < MAX_WIFI_ATTEMPTS
    /\ \E outcome \in { "ok", "OSError", "RuntimeError" } :
          IF outcome = "RuntimeError"
          THEN /\ wifi_pc' = "handler"
               /\ connection_attempts' = connection_attempts
          ELSE /\ connection_attempts' = connection_attempts + 1
               /\ wifi_pc' = IF connect_loop_breaks(connection_attempts + 1)
                             THEN "connected_test" ELSE "connect_test"
    /\ UNCHANGED << launcher_vars, wifi_config, nic_active, nic_connected,
                    rtc_year, timezone_applied, ntp_attempts >>

\* lines 129-130 and 140-141: if nic.isconnected()
WifiConnectedTest ==
    /\ wifi_pc = "connected_test"
    /\ \E connected \in BOOLEAN :
          /\ nic_connected' = connected
          /\ wifi_pc' = IF connected THEN "ntp_test" ELSE "shutdown"
    /\ ntp_attempts' = 0
    /\ UNCHANGED << launcher_vars, wifi_config, nic_active, rtc_year,
                    timezone_applied, connection_attempts >>

\* line 131
WifiNtpTest ==
    /\ wifi_pc = "ntp_test"
    /\ wifi_pc' = IF ntp_loop_goes_on(rtc_year, ntp_attempts) THEN "ntp" ELSE "shutdown"
    /\ UNCHANGED << launcher_vars, wifi_config, nic_active, nic_connected,
                    rtc_year, timezone_applied, connection_attempts, ntp_attempts >>

\* lines 132-139: one ntptime.settime(), its OSError caught; the clock may be
\* set whether the call raised or not
WifiNtp ==
    /\ wifi_pc = "ntp"
    /\ ntp_attempts < MAX_NTP_ATTEMPTS
    /\ \E year \in { 2000, 2024 } : rtc_year' = year
    /\ ntp_attempts' = ntp_attempts + 1
    /\ wifi_pc' = "ntp_test"
    /\ UNCHANGED << launcher_vars, wifi_config, nic_active, nic_connected,
                    timezone_applied, connection_attempts >>

\* lines 143-145: nic.disconnect(); nic.active(False)
WifiShutdown ==
    /\ wifi_pc = "shutdown"
    /\ \E outcome \in { "ok", "RuntimeError" } :
          IF outcome = "ok"
          THEN /\ nic_active' = FALSE
               /\ nic_connected' = FALSE
               /\ wifi_pc' = "report"
          ELSE /\ UNCHANGED << nic_active, nic_connected >>
               /\ wifi_pc' = "handler"
    /\ UNCHANGED << launcher_vars, wifi_config, rtc_year, timezone_applied,
                    connection_attempts, ntp_attempts >>

\* lines 147-155: the timezone offset applied to a clock that was set
WifiReport ==
    /\ wifi_pc = "report"
    /\ timezone_applied' = (rtc_year # 2000)
    /\ wifi_pc' = "done"
    /\ UNCHANGED << launcher_vars, wifi_config, nic_active, nic_connected,
                    rtc_year, connection_attempts, ntp_attempts >>

\* lines 156-162: the RuntimeError handler calls nic.active(True)
WifiHandler ==
    /\ wifi_pc = "handler"
    /\ wifi_pc' = "done"
    /\ UNCHANGED << launcher_vars, wifi_config, nic_active, nic_connected,
                    rtc_year, timezone_applied, connection_attempts, ntp_attempts >>

\* lines 50-89 for the thread: the WLAN object or None, the configuration, the
\* clock at its default or already set
WifiInit ==
    /\ nic \in { "None", "WLAN" }
    /\ nic_active \in BOOLEAN
    /\ nic = "None" => ~nic_active
    /\ nic_connected = FALSE
    /\ sync_clock \in BOOLEAN
    /\ wifi_ssid \in { "", "home" }
    /\ rtc_year \in { 2000, 2024 }
    /\ timezone_applied = FALSE
    /\ connection_attempts = 0
    /\ ntp_attempts = 0
    /\ wifi_pc = "start"
    /\ sd = "None"
    /\ ui_sound = TRUE
    /\ disk = make_disk([dir |-> TRUE, apps |-> << >>], FALSE, NoCard, FALSE)
    /\ InitRest

WifiNext ==
    \/ WifiStart
    \/ WifiActivate
    \/ WifiConnectTest
    \/ WifiConnect
    \/ WifiConnectedTest
    \/ WifiNtpTest
    \/ WifiNtp
    \/ WifiShutdown
    \/ WifiReport
    \/ WifiHandler

\* the thread is scheduled and each of its calls returns: a step that can be
\* taken is taken
WifiSpec == WifiInit /\ [][WifiNext]_vars /\ WF_vars(WifiNext)

-----------------------------------------------------------------------------
(* Properties *)

HandoffSteps == { handoff_order[i] : i \in 1..Len(handoff_order) }

\* the position line 572 read lies before the three menu entries
IsRealEntry(d) ==
    LET position == IF d.index >= 0 THEN d.index + 1 ELSE d.len + d.index + 1
    IN  position <= d.len - 3

\* a directory entry scan_apps takes as an application, and its name
Recognized(entry) == endswith(entry, SUFFIX_PY) \/ endswith(entry, SUFFIX_MPY)
Stem(entry) ==
    IF endswith(entry, SUFFIX_PY) THEN drop_last(entry, 3) ELSE drop_last(entry, 4)
StemsOf(list) == { Stem(list[k]) : k \in { i \in 1..Len(list) : Recognized(list[i]) } }

\* the discovered part of the catalog
Discovered == SubSeq(app_names, 1, Len(app_names) - 3)
Scanned == pc = "loop"

\* C1: whenever Activate is processed on a real application entry the hand-off
\* starts, the hand-off region is written with the path the catalog maps to the
\* entry's name, the reset is issued only after that write, and never while the
\* region is empty.
C1_RealAppActivationHandsOff ==
    /\ \A d \in dispatched :
          IsRealEntry(d) => /\ pc \in HandoffSteps \cup { "halted" }
                            /\ pc \in { "reset", "halted" } =>
                                  /\ d.name \in DOMAIN app_paths
                                  /\ rtc_memory = app_paths[d.name]
    /\ pc \in { "reset", "halted" } => rtc_memory # << >>

\* C2 as stated: the hand-off region is written only by Activate on a real
\* application entry.
C2_OnlyRealAppWritesHandoff ==
    rtc_memory # << >> => \E d \in dispatched : IsRealEntry(d)

\* C2 as amended: the hand-off region is written only by Activate (GO or ENT
\* among the new keys) on an entry that is neither Reload Apps nor UI Sound,
\* that is a real application or Settings, and with the path mapped to its name;
\* no other key and no activation of Reload Apps or UI Sound writes it.
C2_OnlyLaunchBranchWritesHandoff ==
    rtc_memory # << >> =>
        /\ confirm_pressed(new_keys)
        /\ \E d \in dispatched :
              /\ d.name \notin { RELOAD_APPS, UI_SOUND }
              /\ d.name = py_index(app_names, app_selector_index)
              /\ rtc_memory = app_paths[d.name]

\* C2 witness: Settings was activated and its path written
C2_SettingsHandoffWritten ==
    /\ rtc_memory = SETTINGS_PATH
    /\ \E d \in dispatched : d.name = SETTINGS /\ ~IsRealEntry(d)

\* C3: in every hand-off the configuration is flushed, then the display is
\* blanked, then the card handle (if held) is released, then the hand-off record
\* is written, then the device is reset.
C3_QuiesceOrder ==
    /\ display_off => config_saves >= 1
    /\ sd_deinit # "no" => display_off
    /\ rtc_memory # << >> =>
          /\ config_saves >= 1
          /\ display_off
          /\ sd # "None" => sd_deinit # "no"
    /\ pc = "halted" =>
          /\ rtc_memory # << >>
          /\ sd # "None" => sd_deinit # "no"
    /\ pc \in { "boot", "loop" } =>
          /\ config_saves = 0
          /\ ~display_off
          /\ sd_deinit = "no"
          /\ rtc_memory = << >>

\* C3 witness: a reset after the release of a held card handle
C3_ResetAfterRelease ==
    pc = "halted" /\ sd = "SDCard" /\ sd_deinit = "done" /\ display_off

\* C4: after a pass with MoveNext or MovePrevious the index is in
\* [0, len(app_names)); MoveNext at the last index gives 0 and MovePrevious at 0
\* gives the last index.
C4_MoveWrapsIndex ==
    [][ pc' = "loop" =>
          /\ app_selector_index' \in 0..(Len(app_names') - 1)
          /\ (pc = "loop" /\ disk' = disk /\ new_keys' = << K_RIGHT >>) =>
                app_selector_index' =
                    IF app_selector_index = Len(app_names) - 1
                    THEN 0 ELSE app_selector_index + 1
          /\ (pc = "loop" /\ disk' = disk /\ new_keys' = << K_LEFT >>) =>
                app_selector_index' =
                    IF app_selector_index = 0
                    THEN Len(app_names) - 1 ELSE app_selector_index - 1 ]_vars

\* C4 witness: MoveNext has just wrapped the index to 0
C4_MoveNextWrapped ==
    /\ pc = "loop"
    /\ new_keys = << K_RIGHT >>
    /\ app_selector_index = 0
    /\ scroll_factor = 89

\* C5: every scan returns, with a catalog of at least 3 names, whatever the
\* storage does.
C5_ScanAlwaysReturns ==
    /\ pc # "boot_raised"
    /\ Scanned => Len(app_names) >= 3

\* C6: the main loop never ends in an error state.
C6_LoopNeverRaises == pc # "loop_raised"

\* C7: the last three names of every catalog are Reload Apps, UI Sound, Settings.
C7_MenuEntriesLast ==
    Scanned =>
        /\ Len(app_names) >= 3
        /\ SubSeq(app_names, Len(app_names) - 2, Len(app_names)) =
               << RELOAD_APPS, UI_SOUND, SETTINGS >>

\* C7 witness: a catalog whose discovered names sort after and collide with the
\* menu entries
C7_MenuEntriesAfterZenAndSettings ==
    /\ Scanned
    /\ in_list(<< "Z", "e", "n" >>, Discovered)
    /\ in_list(SETTINGS, Discovered)

\* C8: a name discovered in both apps directories is mapped to its card path
\* and is in the ordered list once.
C8_CardPathWins ==
    Scanned =>
        \A name \in StemsOf(listed[1]) \cap StemsOf(listed[2]) :
            /\ name \in DOMAIN app_paths
            /\ startswith(app_paths[name], SD_APPS_PREFIX)
            /\ Cardinality({ i \in 1..Len(app_names) : app_names[i] = name }) = 1

\* C9 as stated: every name of the ordered list has an entry in the mapping.
C9_EveryNameMapped ==
    Scanned => \A i \in 1..Len(app_names) : app_names[i] \in DOMAIN app_paths

\* C9 as amended: every name of the ordered list other than Reload Apps and
\* UI Sound has an entry in the mapping, every key of the mapping is in the
\* list, and Reload Apps and UI Sound are keys only when a file of that name
\* was discovered.
C9_LaunchableNamesMapped ==
    Scanned =>
        /\ \A i \in 1..Len(app_names) :
               app_names[i] \notin { RELOAD_APPS, UI_SOUND } =>
                   app_names[i] \in DOMAIN app_paths
        /\ \A name \in DOMAIN app_paths : in_list(name, app_names)
        /\ \A name \in { RELOAD_APPS, UI_SOUND } :
               name \in DOMAIN app_paths <=> in_list(name, Discovered)

\* C9 witness: a catalog with discovered names and no path for UI Sound
C9_MenuEntryWithoutPath ==
    /\ Scanned
    /\ Len(app_names) > 3
    /\ UI_SOUND \notin DOMAIN app_paths
    /\ SETTINGS \in DOMAIN app_paths

\* the place of a name's first file in the order the directories were read
FirstSeen(name) ==
    LET all == listed[1] \o listed[2]
        at == { k \in 1..Len(all) : Recognized(all[k]) /\ Stem(all[k]) = name }
    IN  CHOOSE k \in at : \A j \in at : k <= j

C11_DiscoveredAreRecognizedStems ==
    Scanned =>
        /\ { Discovered[i] : i \in 1..Len(Discovered) } =
               StemsOf(listed[1]) \cup StemsOf(listed[2])
        /\ ( /\ { listed[1][i] : i \in 1..Len(listed[1]) } = { CHESS_PY, CLOCK_MPY }
             /\ listed[2] = << >> ) =>
               app_names = << << "C", "h", "e", "s", "s" >>,
                              << "C", "l", "o", "c", "k" >>,
                              RELOAD_APPS, UI_SOUND, SETTINGS >>

\* C11 witness: Clock.mpy listed before Chess.py, nothing from the card
C11_ChessClockCatalog ==
    /\ Scanned
    /\ listed = << << CLOCK_MPY, CHESS_PY >>, << >> >>
    /\ Len(app_names) = 5
    /\ app_names[1] = << "C", "h", "e", "s", "s" >>

\* a pass of the loop that read the name UI Sound at line 572
UiSoundPass ==
    /\ pc = "loop"
    /\ confirm_pressed(new_keys')
    /\ \E d \in dispatched' : d.name = UI_SOUND
    /\ disk' = disk

\* C12: a pass that activates UI Sound flips config['ui_sound'], calls both
\* scroll routines (the forced redraw), stays in the loop and leaves the
\* hand-off record blank; toggling twice gives the flag back.
C12_UiSoundToggles ==
    [][ /\ UiSoundPass =>
              /\ ui_sound' = ~ui_sound
              /\ scroll_calls' = { "text", "icon" }
              /\ ~force_redraw_display'
              /\ pc' = "loop"
              /\ rtc_memory' = << >>
              /\ config_saves' = 0
              /\ app_names' = app_names /\ app_paths' = app_paths
        /\ pc' = "loop" =>
              toggle_ui_sound(toggle_ui_sound(locals')).ui_sound = ui_sound' ]_vars

\* C12 witness: UI Sound was activated while muted
C12_Unmuted ==
    /\ pc = "loop"
    /\ new_keys = << K_GO >>
    /\ \E d \in dispatched : d.name = UI_SOUND /\ ~IsRealEntry(d)
    /\ ui_sound
    /\ << "unmute", TRUE >> \in beeps
    /\ scroll_calls = { "text", "icon" }

\* C13: no pass that activates UI Sound calls config.save(); config.save() is
\* called at most once, as the first step of the hand-off, so it has not been
\* called while the launcher boots or loops and has been called exactly once
\* when machine.reset() is reached.
C13_OneCommitInHandoff ==
    [][ /\ UiSoundPass => config_saves' = 0
        /\ config_saves' # config_saves =>
              /\ pc = "config_save"
              /\ pc' = "display_off"
              /\ config_saves = 0 /\ config_saves' = 1
              /\ rtc_memory' = << >>
        /\ pc' \in { "boot", "boot_raised", "loop" } => config_saves' = 0
        /\ pc' \in { "reset", "halted" } => config_saves' = 1 ]_vars

\* C13 witness: a reset after one commit, the hand-off started from the pass
\* after the selection rested on UI Sound
C13_CommittedBeforeReset ==
    /\ pc = "halted"
    /\ config_saves = 1
    /\ label_drawn = UI_SOUND
    /\ icon_drawn = UI_SOUND
    /\ \E d \in dispatched : d.name = SETTINGS

\* the scroll factors of n passes without input that start at sf
RECURSIVE decay_chain(_, _)
decay_chain(sf, n) ==
    IF n = 0 THEN << >>
    ELSE << decay(sf, FALSE) >> \o decay_chain(decay(sf, FALSE), n - 1)

\* ten decay steps from 1.0 and from -1.0, and on the device's floats
decay_from_one == decay_chain(100, 10)
decay_from_minus_one == decay_chain(-100, 10)
f32_decay_from_one == f32_chain(F32_ONE, 10)

\* the number of passes without input after which a scroll factor is 0
decay_ticks ==
    [ sf \in -100..100 |->
        LET c == decay_chain(sf, 10)
        IN  IF sf = 0 THEN 0
            ELSE IF \E k \in 1..10 : c[k] = 0
                 THEN CHOOSE k \in 1..10 : c[k] = 0 /\ \A j \in 1..(k - 1) : c[j] # 0
                 ELSE 11 ]

\* a pass of the loop that starts no scroll: no arrow key, no shortcut hit
QuietPass ==
    /\ pc = "loop" /\ pc' = "loop"
    /\ new_keys' \in { << >>, << K_TAB >>, << K_X >> }
    /\ disk' = disk

\* C14: from 1.0 or -1.0 the scroll factor is 0 after 10 decay steps and not
\* before, on the model's hundredths and on the device's floats alike; in every
\* pass without input its magnitude does not grow, shrinks while it is not 0,
\* its sign does not flip, and the number of passes left to 0 is at most 10 and
\* goes down by one.
C14_DecayReachesZero ==
    [][ /\ QuietPass =>
              /\ abs(scroll_factor') <= abs(scroll_factor)
              /\ scroll_factor # 0 => abs(scroll_factor') < abs(scroll_factor)
              /\ scroll_factor' * scroll_factor >= 0
              /\ abs(scroll_factor) <= 11 => scroll_factor' = 0
              /\ decay_ticks[scroll_factor] <= 10
              /\ scroll_factor # 0 =>
                    decay_ticks[scroll_factor'] = decay_ticks[scroll_factor] - 1
        /\ decay_ticks[100] = 10 /\ decay_ticks[-100] = 10
        /\ f32_decay_from_one[10] = 0
        /\ \A i \in 1..9 :
              /\ decay_from_one[i] > 0 /\ decay_from_minus_one[i] < 0
              /\ decay_from_one[i + 1] < decay_from_one[i]
              /\ decay_from_minus_one[i + 1] > decay_from_minus_one[i]
              /\ 0 < f32_decay_from_one[i]
              /\ f32_decay_from_one[i + 1] < f32_decay_from_one[i]
              /\ f32_hundredths(f32_decay_from_one[i]) = decay_from_one[i] ]_vars

\* C14 witness: nine decay steps after a move to the left
C14_LastStepPending ==
    /\ pc = "loop"
    /\ new_keys = << >>
    /\ scroll_factor = -1
    /\ text_scroll_position = 0

\* C15: whenever line 572 reads app_names[app_selector_index] to dispatch an
\* activation, the index is in [0, len(app_names)): the read never has a
\* negative index and never raises IndexError.
C15_DispatchIndexInRange ==
    /\ \A d \in dispatched : d.index \in 0..(d.len - 1)
    /\ ~( /\ pc = "loop_raised" /\ error = "IndexError"
          /\ confirm_pressed(new_keys)
          /\ app_selector_index = Len(app_names) )

\* a pass of the loop that read the name Reload Apps at line 582
ReloadPass ==
    /\ pc = "loop"
    /\ confirm_pressed(new_keys')
    /\ \E d \in dispatched' : d.name = RELOAD_APPS

\* C16: a pass that activates Reload Apps ends with the catalog of a scan of
\* the storage as it was when the pass began, with the index at 0, in the loop
\* and with the hand-off record blank.
C16_ReloadReplacesCatalog ==
    [][ ReloadPass =>
          /\ pc' = "loop"
          /\ app_selector_index' = 0
          /\ rtc_memory' = << >>
          /\ \E r \in scan_apps(sd, disk) :
                /\ ~r.raised
                /\ app_names' = r.app_names
                /\ app_paths' = r.app_paths
                /\ disk' = r.disk ]_vars

\* the positions (from 0) of the names whose first character is c in either case
PrefixHits(c) ==
    { i \in 0..(Len(app_names) - 1) :
        /\ Len(app_names[i + 1]) > 0
        /\ lower_char(app_names[i + 1][1]) = c }

\* a pass of the loop whose only new key is the character c
JumpPass(c) ==
    /\ pc = "loop"
    /\ new_keys' = << << c >> >>
    /\ disk' = disk

\* C17: a pass whose only new key is a letter c ends with the index at the
\* smallest position of a name that starts with c in either case; when no name
\* does, the index, the animation and the catalog end as in a pass without keys.
C17_JumpToFirstHit ==
    [][ \A c \in { "s", "u", "x" } :
          JumpPass(c) =>
            /\ pc' = "loop"
            /\ app_names' = app_names /\ app_paths' = app_paths
            /\ PrefixHits(c) # {} =>
                  /\ app_selector_index' \in PrefixHits(c)
                  /\ \A i \in PrefixHits(c) : app_selector_index' <= i
            /\ PrefixHits(c) = {} =>
                  \A L \in { pass(<< >>, no_scan) } :
                      /\ app_selector_index' = app_selector_index
                      /\ scroll_factor' = L.scroll_factor
                      /\ text_scroll_position' = L.text_scroll_position
                      /\ icon_scroll_position' = L.icon_scroll_position
                      /\ prev_text_scroll_position' = L.prev_text_scroll_position
                      /\ prev_icon_scroll_position' = L.prev_icon_scroll_position
                      /\ text_drawing' = L.text_drawing
                      /\ icon_drawing' = L.icon_drawing
                      /\ scroll_calls' = L.scroll_calls
                      /\ beeps' = {} ]_vars

\* C17 witness: "s" pressed with Settings discovered on the card and appended
\* as a menu entry; the index is at the first of the two
C17_JumpedToFirstSettings ==
    /\ pc = "loop"
    /\ new_keys = << K_S >>
    /\ Len(app_names) = 6
    /\ app_names[3] = SETTINGS /\ app_names[6] = SETTINGS
    /\ app_selector_index = 2
    /\ scroll_factor = 89

\* the sign of new index - old index
Direction(new, old) == IF new > old THEN 1 ELSE IF new < old THEN -1 ELSE 0

\* C18: a pass whose only new key is a letter with a hit ends, when the hit is
\* at a larger index, with the scroll factor one decay step below +1.0 and both
\* tracks at the eased position of that factor, still drawing; when it is at a
\* smaller index, with the same on the negative side; and when it is at the
\* index itself, with the animation as a pass without keys leaves it.  The
\* distance round the end of the list plays no part.
C18_JumpDirectionIsIndexDelta ==
    [][ \A c \in { "s", "u" } :
          (JumpPass(c) /\ PrefixHits(c) # {}) =>
            \A dir \in { Direction(CHOOSE i \in PrefixHits(c) :
                                      \A j \in PrefixHits(c) : i <= j,
                                  app_selector_index) } :
              /\ dir # 0 =>
                    /\ scroll_factor' = dir * 89
                    /\ text_scroll_position' = dir * ease_in_out_quart_px(89)
                    /\ icon_scroll_position' = dir * ease_in_out_cubic_px(89)
                    /\ abs(text_scroll_position') > 230
                    /\ abs(icon_scroll_position') > 230
                    /\ text_drawing' /\ icon_drawing'
                    /\ scroll_calls' = { "text", "icon" }
              /\ dir = 0 =>
                    \A L \in { pass(<< >>, no_scan) } :
                        /\ scroll_factor' = L.scroll_factor
                        /\ text_scroll_position' = L.text_scroll_position
                        /\ icon_scroll_position' = L.icon_scroll_position
                        /\ text_drawing' = L.text_drawing
                        /\ icon_drawing' = L.icon_drawing
                        /\ scroll_calls' = L.scroll_calls ]_vars

\* C18 witness: "u" pressed further down a list that starts with UI Sound; the
\* tracks scroll from the negative side
C18_JumpedBackwards ==
    /\ pc = "loop"
    /\ new_keys = << K_U >>
    /\ app_names[1] = UI_SOUND
    /\ app_selector_index = 0
    /\ scroll_factor = -89
    /\ text_scroll_position < -230
    /\ icon_scroll_position < -230

\* a pass of the loop that returns to the top of the loop
LoopPass ==
    /\ pc = "loop" /\ pc' = "loop"
    /\ disk' = disk

\* C19: after every pass a track is drawing exactly when its position is not
\* 0, and then the scroll factor has at most 9 decay steps left (10 with the
\* pass of the key) and the position is the eased scroll factor, which is 0 for
\* the factor 0.  In a pass without input a track is scrolled exactly when it
\* is drawing or a redraw is forced; the call that puts it at 0 draws the
\* selected entry and makes the track idle; an idle track is not scrolled, stays
\* idle at 0 and keeps what was drawn.
C19_TracksSettleAndIdle ==
    [][ /\ LoopPass =>
              /\ text_drawing' <=> text_scroll_position' # 0
              /\ icon_drawing' <=> icon_scroll_position' # 0
              /\ text_drawing' =>
                    /\ text_scroll_position' = text_position(scroll_factor')
                    /\ decay_ticks[scroll_factor'] \in 1..9
              /\ icon_drawing' =>
                    /\ icon_scroll_position' = icon_position(scroll_factor')
                    /\ decay_ticks[scroll_factor'] \in 1..9
              /\ text_position(0) = 0 /\ icon_position(0) = 0
        /\ QuietPass =>
              /\ "text" \in scroll_calls' <=> (text_drawing \/ force_redraw_display)
              /\ "icon" \in scroll_calls' <=> (icon_drawing \/ force_redraw_display)
              /\ ("text" \in scroll_calls' /\ text_scroll_position' = 0) =>
                    /\ ~text_drawing'
                    /\ label_drawn' = app_names[app_selector_index + 1]
              /\ ("icon" \in scroll_calls' /\ icon_scroll_position' = 0) =>
                    /\ ~icon_drawing'
                    /\ icon_drawn' = app_names[app_selector_index + 1]
              /\ "text" \notin scroll_calls' =>
                    /\ ~text_drawing /\ ~text_drawing'
                    /\ text_scroll_position' = 0
                    /\ label_drawn' = label_drawn
              /\ "icon" \notin scroll_calls' =>
                    /\ ~icon_drawing /\ ~icon_drawing'
                    /\ icon_scroll_position' = 0
                    /\ icon_drawn' = icon_drawn ]_vars

\* C19 witness: nine passes after a move; the text track went idle a pass
\* earlier and was not scrolled again, the icon track was just drawn at 0
C19_TextIdleIconSettled ==
    /\ pc = "loop"
    /\ new_keys = << >>
    /\ scroll_factor = 1
    /\ scroll_calls = { "icon" }
    /\ ~text_drawing /\ ~icon_drawing
    /\ text_scroll_position = 0 /\ icon_scroll_position = 0
    /\ label_drawn = app_names[app_selector_index + 1]
    /\ icon_drawn = app_names[app_selector_index + 1]

\* C20: the thread of wifi_sync_rtc ends in every run, with at most 100 calls
\* of nic.connect() and at most 10 calls of ntptime.settime(), whatever the
\* network does.
C20_SyncTerminates ==
    /\ [](connection_attempts <= MAX_WIFI_ATTEMPTS /\ ntp_attempts <= MAX_NTP_ATTEMPTS)
    /\ <>(wifi_pc = "done")

\* C20 witness: the thread ended after 100 connection attempts without a
\* connection, the clock still at its default
C20_GaveUpConnecting ==
    /\ wifi_pc = "done"
    /\ connection_attempts = MAX_WIFI_ATTEMPTS
    /\ ~nic_connected
    /\ ntp_attempts = 0
    /\ rtc_year = 2000

\* C21: whenever the loop is at the top of a pass with both tracks idle, the
\* name last drawn as the label and the name last drawn as the icon are the
\* name at app_selector_index of the catalog.
C21_ShownEntryIsSelected ==
    (pc = "loop" /\ ~text_drawing /\ ~icon_drawing) =>
        /\ py_index_ok(app_names, app_selector_index)
        /\ label_drawn = py_index(app_names, app_selector_index)
        /\ icon_drawn = py_index(app_names, app_selector_index)

\* C22: the read of app_names[prev_selector_index] at line 379 never raises
\* IndexError: when scroll_text makes it, prev_selector_index is an index of
\* the catalog.
C22_PreviousIndexValid ==
    ~( /\ pc = "loop_raised" /\ error = "IndexError"
       /\ "text" \in scroll_calls
       /\ abs(text_scroll_position) \in 1..119
       /\ ~py_index_ok(app_names, prev_selector_index) )

\* C23: the ordered name list of every catalog holds no name twice.
C23_NamesAreUnique ==
    Scanned =>
        \A i, j \in 1..Len(app_names) : app_names[i] = app_names[j] => i = j

\* C24: every beep.play() call of a step is made while config['ui_sound'] is
\* true: each recorded call carries the value the flag had at the call, and
\* that value is never false.
C24_NoBeepWhileMuted ==
    \A b \in beeps : b[2] = TRUE

\* a pass of the loop made a prefix jump and sounded its chime with the flag
\* set
C24_JumpChime ==
    /\ pc = "loop"
    /\ << "jump", TRUE >> \in beeps
    /\ ui_sound
    /\ config_saves = 0

\* C25: when the thread of wifi_sync_rtc ends after it has entered its try
\* block, by the report of lines 147-155 or by the RuntimeError handler of
\* lines 156-162, the network interface is not active.
C25_NicOffAtEnd ==
    [][ (wifi_pc \in { "report", "handler" } /\ wifi_pc' = "done")
            => ~nic_active' ]_vars

====
